---- MODULE Spec2Model ----
(***************************************************************************)
(* Model of ringbuffer.h: a fixed-capacity circular queue of references    *)
(* to OPPLE_QUEUE entries, with a write pointer (in), a read pointer       *)
(* (out) and a 16-bit occupancy counter (sount).                           *)
(*                                                                         *)
(* Pointers into the caller's array dataptr[] are modelled by the index of *)
(* the slot they point at: &dataptr[i] is i.  References to OPPLE_QUEUE    *)
(* entries are the numbers 1..MaxRef, and NULL is the content of a slot of *)
(* the (global, hence zero-initialised) array that was never written.      *)
(*                                                                         *)
(* Spec      is the sequential use of the API: any sequence of calls,      *)
(*           each call running to completion, callers free to ignore the   *)
(*           full/empty preconditions (violated records that they did).    *)
(* SpecSPSC  is one producer context and one consumer context whose        *)
(*           statements interleave; the counter update sount++ / sount--   *)
(*           is a load followed by a store, as the critical-section calls  *)
(*           around it are commented out in the source.                    *)
(***************************************************************************)
EXTENDS Integers, Sequences, FiniteSets

\* Bounds of the model.
MaxSize == 2      \* largest capacity, and the length of the backing array
MaxRef  == 2      \* number of distinct entry references
MaxOps  == 4      \* inserts (and removes) explored after an init

\* uint16_t arithmetic is modulo 2^16.
UINT16_MOD == 65536
NULL == 0

Refs  == 1..MaxRef
Slots == 0..(MaxSize - 1)

VARIABLES
    in, out, start, end, size, sount,   \* the fields of ringbuffer_t
    storage,                            \* the caller's array dataptr[]
    ret,                                \* value returned by the last completed call
    lastOp,                             \* name of the last completed call
    inserted,                           \* history: references stored since init, in order
    removed,                            \* history: references read out since init, in order
    violated,                           \* history: a call since init ignored its precondition
    pcP, pcC,                           \* position of the producer / consumer context
    prodMode, consMode,                 \* how each context decides to act
    dataP,                              \* producer: the Data argument of the running insert
    dataC,                              \* consumer: local Data of the running remove
    tmpP, tmpC,                         \* the value of sount loaded by sount++ / sount--
    budgetP, budgetC,                   \* calls left before the context looks at the counter again
    underflow,                          \* history: a remove read a slot holding no unread entry
    overwrite                           \* history: an insert wrote a slot holding an unread entry

bufVars  == <<in, out, start, end, size, sount>>
histVars == <<inserted, removed, violated>>
procVars == <<pcP, pcC, prodMode, consMode, dataP, dataC, tmpP, tmpC,
              budgetP, budgetC, underflow, overwrite>>
vars     == <<bufVars, storage, ret, lastOp, histVars, procVars>>

-----------------------------------------------------------------------------
\* The queries (pure functions of the buffer).

ringbuffer_get_count == sount

\* Variant: one slot is held back, as in ring buffers that tell full from empty
\* by the cursors alone.
ringbuffer_get_free_count_reserve == (size - 1 - ringbuffer_get_count) % UINT16_MOD

ringbuffer_get_free_count == (size - ringbuffer_get_count) % UINT16_MOD

ringbuffer_is_empty == ringbuffer_get_count = 0

\* Variant: the test compares with > instead of ==.
ringbuffer_is_full_gt == ringbuffer_get_count > size

ringbuffer_is_full == ringbuffer_get_count = size

\* Variant: the first slot of the array is returned instead of the slot at out.
ringbuffer_peek_start == storage[start]

ringbuffer_peek == storage[out]

\* Variant: the pointer is not wrapped when it reaches end.
Advance_nowrap(p) == p + 1

\* Variant: the pointer wraps one slot early (end taken as &dataptr[size - 1]).
Advance_early(p) == IF p + 1 >= end - 1 THEN start ELSE p + 1

\* if (++ p == buffer->end) p = buffer->start;
Advance(p) == IF p + 1 = end THEN start ELSE p + 1

\* Variant: the increment is missing.
CountInc_missing(c) == c

\* buffer->sount ++ and buffer->sount -- on a uint16_t holding c.
CountInc(c) == (c + 1) % UINT16_MOD

\* Variant: the decrement stops at 0 instead of wrapping.
CountDec_saturate(c) == IF c = 0 THEN 0 ELSE c - 1

CountDec(c) == (c - 1) % UINT16_MOD

-----------------------------------------------------------------------------
\* The operations on the buffer, each run to completion.

\* Variant: the counter is not reset.
ringbuffer_init_keepcount(sz) ==
    /\ in'    = 0
    /\ out'   = 0
    /\ start' = 0
    /\ end'   = sz
    /\ size'  = sz
    /\ UNCHANGED <<sount, storage>>

ringbuffer_init(sz) ==
    /\ in'    = 0
    /\ out'   = 0
    /\ start' = 0
    /\ end'   = sz
    /\ size'  = sz
    /\ sount' = 0
    /\ UNCHANGED storage

\* Variant: the write pointer is advanced before the store instead of after it.
ringbuffer_insert_preinc(Data) ==
    /\ storage' = [storage EXCEPT ![Advance(in)] = Data]
    /\ in'      = Advance(in)
    /\ sount'   = CountInc(sount)
    /\ UNCHANGED <<out, start, end, size>>

\* Variant: a checked insert, which drops Data when the buffer is full.
ringbuffer_insert_checked(Data) ==
    IF ringbuffer_is_full
        THEN UNCHANGED <<storage, in, sount, out, start, end, size>>
        ELSE /\ storage' = [storage EXCEPT ![in] = Data]
             /\ in'      = Advance(in)
             /\ sount'   = CountInc(sount)
             /\ UNCHANGED <<out, start, end, size>>

ringbuffer_insert(Data) ==
    /\ storage' = [storage EXCEPT ![in] = Data]
    /\ in'      = Advance(in)
    /\ sount'   = CountInc(sount)
    /\ UNCHANGED <<out, start, end, size>>

\* Variant: the slot that was read is cleared.
ringbuffer_remove_clear ==
    /\ ret'   = storage[out]
    /\ out'   = Advance(out)
    /\ sount' = CountDec(sount)
    /\ storage' = [storage EXCEPT ![out] = NULL]
    /\ UNCHANGED <<in, start, end, size>>

ringbuffer_remove ==
    /\ ret'   = storage[out]
    /\ out'   = Advance(out)
    /\ sount' = CountDec(sount)
    /\ UNCHANGED <<in, start, end, size, storage>>

-----------------------------------------------------------------------------
\* insert and remove as functions of the structure b they are given (a record of
\* the fields of ringbuffer_t), of the array st and of Data: the values they
\* store and return.

Buf == [in |-> in, out |-> out, start |-> start, end |-> end,
        size |-> size, sount |-> sount]

AdvanceOf(b, p) == IF p + 1 = b.end THEN b.start ELSE p + 1

InsertOf(b, st, Data) ==
    [storage |-> [st EXCEPT ![b.in] = Data],
     in      |-> AdvanceOf(b, b.in),
     sount   |-> (b.sount + 1) % UINT16_MOD]

RemoveOf(b, st) ==
    [Data  |-> st[b.out],
     out   |-> AdvanceOf(b, b.out),
     sount |-> (b.sount - 1) % UINT16_MOD]

-----------------------------------------------------------------------------
\* Sequential use of the API.

Init ==
    /\ \E sz \in 1..MaxSize :
          /\ in = 0 /\ out = 0 /\ start = 0
          /\ end = sz /\ size = sz /\ sount = 0
    /\ storage = [i \in Slots |-> NULL]
    /\ ret = NULL
    /\ lastOp = "init"
    /\ inserted = <<>>
    /\ removed = <<>>
    /\ violated = FALSE
    /\ pcP = "idle" /\ pcC = "idle"
    /\ prodMode = "check" /\ consMode = "check"
    /\ dataP = NULL /\ dataC = NULL
    /\ tmpP = 0 /\ tmpC = 0
    /\ budgetP = 0 /\ budgetC = 0
    /\ underflow = FALSE /\ overwrite = FALSE

CallInit ==
    \E sz \in 1..MaxSize :
        /\ ringbuffer_init(sz)
        /\ ret' = NULL
        /\ lastOp' = "init"
        /\ inserted' = <<>>
        /\ removed' = <<>>
        /\ violated' = FALSE
        /\ UNCHANGED procVars

CallInsert ==
    \E Data \in Refs :
        /\ Len(inserted) < MaxOps
        /\ ringbuffer_insert(Data)
        /\ ret' = NULL
        /\ lastOp' = "insert"
        /\ inserted' = Append(inserted, Data)
        /\ violated' = (violated \/ ringbuffer_is_full)
        /\ UNCHANGED <<removed, procVars>>

CallRemove ==
    /\ Len(removed) < MaxOps
    /\ ringbuffer_remove
    /\ lastOp' = "remove"
    /\ removed' = Append(removed, storage[out])
    /\ violated' = (violated \/ ringbuffer_is_empty)
    /\ UNCHANGED <<inserted, procVars>>

CallPeek ==
    /\ ret' = ringbuffer_peek
    /\ lastOp' = "peek"
    /\ UNCHANGED <<bufVars, storage, histVars, procVars>>

CallGetCount ==
    /\ ret' = ringbuffer_get_count
    /\ lastOp' = "get_count"
    /\ UNCHANGED <<bufVars, storage, histVars, procVars>>

CallGetFreeCount ==
    /\ ret' = ringbuffer_get_free_count
    /\ lastOp' = "get_free_count"
    /\ UNCHANGED <<bufVars, storage, histVars, procVars>>

CallIsEmpty ==
    /\ ret' = (IF ringbuffer_is_empty THEN 1 ELSE 0)
    /\ lastOp' = "is_empty"
    /\ UNCHANGED <<bufVars, storage, histVars, procVars>>

CallIsFull ==
    /\ ret' = (IF ringbuffer_is_full THEN 1 ELSE 0)
    /\ lastOp' = "is_full"
    /\ UNCHANGED <<bufVars, storage, histVars, procVars>>

Next ==
    \/ CallInit
    \/ CallInsert
    \/ CallRemove
    \/ CallPeek
    \/ CallGetCount
    \/ CallGetFreeCount
    \/ CallIsEmpty
    \/ CallIsFull

Spec == Init /\ [][Next]_vars

-----------------------------------------------------------------------------
\* One producer context and one consumer context (SPSC), statements interleaved.
\* Each context alternates between looking at the counter and acting on what it
\* saw: in mode "check" it tests is_full / is_empty before every single call, in
\* mode "batch" it takes get_free_count / get_count once and then makes that many
\* calls without looking again.  in is private to the producer and out to the
\* consumer, so advancing a cursor is one step; sount is shared, and sount++ and
\* sount-- are a load and a later store.

InitSPSC ==
    /\ \E sz \in 1..MaxSize :
          /\ in = 0 /\ out = 0 /\ start = 0
          /\ end = sz /\ size = sz /\ sount = 0
    /\ storage = [i \in Slots |-> NULL]
    /\ ret = NULL
    /\ lastOp = "init"
    /\ inserted = <<>>
    /\ removed = <<>>
    /\ violated = FALSE
    /\ pcP = "idle" /\ pcC = "idle"
    /\ prodMode \in {"check", "batch"}
    /\ consMode \in {"check", "batch"}
    /\ dataP = NULL /\ dataC = NULL
    /\ tmpP = 0 /\ tmpC = 0
    /\ budgetP = 0 /\ budgetC = 0
    /\ underflow = FALSE /\ overwrite = FALSE

consVars == <<out, pcC, dataC, tmpC, budgetC, removed, underflow, ret>>
prodVars == <<in, pcP, dataP, tmpP, budgetP, inserted, overwrite, storage>>
fixedVars == <<start, end, size, prodMode, consMode, lastOp, violated>>

\* Producer: if (!ringbuffer_is_full(buffer)) -> one insert.
P_IsFull ==
    /\ pcP = "idle" /\ prodMode = "check"
    /\ ~ringbuffer_is_full
    /\ budgetP' = 1
    /\ pcP' = "loop"
    /\ UNCHANGED <<in, dataP, tmpP, inserted, overwrite, storage, sount,
                   consVars, fixedVars>>

\* Producer: n = ringbuffer_get_free_count(buffer) -> n inserts.
P_GetFreeCount ==
    /\ pcP = "idle" /\ prodMode = "batch"
    /\ budgetP' = ringbuffer_get_free_count
    /\ pcP' = "loop"
    /\ UNCHANGED <<in, dataP, tmpP, inserted, overwrite, storage, sount,
                   consVars, fixedVars>>

\* Producer: the next call of ringbuffer_insert(buffer, Data), or back to looking.
P_Loop ==
    /\ pcP = "loop"
    /\ IF budgetP = 0
          THEN pcP' = "idle" /\ UNCHANGED dataP
          ELSE /\ Len(inserted) < MaxOps
               /\ \E Data \in Refs : dataP' = Data
               /\ pcP' = "write"
    /\ UNCHANGED <<in, tmpP, budgetP, inserted, overwrite, storage, sount,
                   consVars, fixedVars>>

\* *buffer->in = Data;
P_Write ==
    /\ pcP = "write"
    /\ storage' = [storage EXCEPT ![in] = dataP]
    /\ inserted' = Append(inserted, dataP)
    /\ overwrite' = (overwrite \/ (Len(inserted) - Len(removed) >= size))
    /\ pcP' = "adv_in"
    /\ UNCHANGED <<in, dataP, tmpP, budgetP, sount, consVars, fixedVars>>

\* if (++ buffer->in == buffer->end) buffer->in = buffer->start;
P_AdvIn ==
    /\ pcP = "adv_in"
    /\ in' = Advance(in)
    /\ pcP' = "load"
    /\ UNCHANGED <<dataP, tmpP, budgetP, inserted, overwrite, storage, sount,
                   consVars, fixedVars>>

\* Variant: the counter update is guarded by a lock that the producer waits for
\* while the consumer is between its load and its store.
P_Load_locked ==
    /\ pcP = "load"
    /\ pcC # "store"
    /\ tmpP' = sount
    /\ pcP' = "store"
    /\ UNCHANGED <<in, dataP, budgetP, inserted, overwrite, storage, sount,
                   consVars, fixedVars>>

\* buffer->sount ++ : the load
P_Load ==
    /\ pcP = "load"
    /\ tmpP' = sount
    /\ pcP' = "store"
    /\ UNCHANGED <<in, dataP, budgetP, inserted, overwrite, storage, sount,
                   consVars, fixedVars>>

\* buffer->sount ++ : the store; the call returns
P_Store ==
    /\ pcP = "store"
    /\ sount' = CountInc(tmpP)
    /\ budgetP' = budgetP - 1
    /\ pcP' = "loop"
    /\ UNCHANGED <<in, dataP, tmpP, inserted, overwrite, storage,
                   consVars, fixedVars>>

\* Consumer: if (!ringbuffer_is_empty(buffer)) -> one remove.
C_IsEmpty ==
    /\ pcC = "idle" /\ consMode = "check"
    /\ ~ringbuffer_is_empty
    /\ budgetC' = 1
    /\ pcC' = "loop"
    /\ UNCHANGED <<out, dataC, tmpC, removed, underflow, ret, sount,
                   prodVars, fixedVars>>

\* Consumer: n = ringbuffer_get_count(buffer) -> n removes.
C_GetCount ==
    /\ pcC = "idle" /\ consMode = "batch"
    /\ budgetC' = ringbuffer_get_count
    /\ pcC' = "loop"
    /\ UNCHANGED <<out, dataC, tmpC, removed, underflow, ret, sount,
                   prodVars, fixedVars>>

\* Consumer: the next call of ringbuffer_remove(buffer), or back to looking.
C_Loop ==
    /\ pcC = "loop"
    /\ IF budgetC = 0
          THEN pcC' = "idle"
          ELSE /\ Len(removed) < MaxOps
               /\ pcC' = "read"
    /\ UNCHANGED <<out, dataC, tmpC, budgetC, removed, underflow, ret, sount,
                   prodVars, fixedVars>>

\* OPPLE_QUEUE *Data = *buffer->out;
C_Read ==
    /\ pcC = "read"
    /\ dataC' = storage[out]
    /\ removed' = Append(removed, storage[out])
    /\ underflow' = (underflow \/ (Len(removed) >= Len(inserted)))
    /\ pcC' = "adv_out"
    /\ UNCHANGED <<out, tmpC, budgetC, ret, sount, prodVars, fixedVars>>

\* if (++ buffer->out == buffer->end) buffer->out = buffer->start;
C_AdvOut ==
    /\ pcC = "adv_out"
    /\ out' = Advance(out)
    /\ pcC' = "load"
    /\ UNCHANGED <<dataC, tmpC, budgetC, removed, underflow, ret, sount,
                   prodVars, fixedVars>>

\* buffer->sount -- : the load
C_Load ==
    /\ pcC = "load"
    /\ tmpC' = sount
    /\ pcC' = "store"
    /\ UNCHANGED <<out, dataC, budgetC, removed, underflow, ret, sount,
                   prodVars, fixedVars>>

\* buffer->sount -- : the store; return Data
C_Store ==
    /\ pcC = "store"
    /\ sount' = CountDec(tmpC)
    /\ ret' = dataC
    /\ budgetC' = budgetC - 1
    /\ pcC' = "loop"
    /\ UNCHANGED <<out, dataC, tmpC, removed, underflow, prodVars, fixedVars>>

Producer == P_IsFull \/ P_GetFreeCount \/ P_Loop \/ P_Write \/ P_AdvIn \/ P_Load \/ P_Store

Consumer == C_IsEmpty \/ C_GetCount \/ C_Loop \/ C_Read \/ C_AdvOut \/ C_Load \/ C_Store

NextSPSC == Producer \/ Consumer

SpecSPSC == InitSPSC /\ [][NextSPSC]_vars

\* The same system with each context scheduled again and again (weak fairness
\* of the producer and of the consumer).
SpecSPSCFair ==
    InitSPSC /\ [][NextSPSC]_vars /\ WF_vars(Producer) /\ WF_vars(Consumer)

\* The same system with only the consumer scheduled again and again: the
\* producer may stop at any point.
SpecSPSCConsumerFair ==
    InitSPSC /\ [][NextSPSC]_vars /\ WF_vars(Consumer)

\* Neither context is in the middle of an insert or a remove.
Quiescent == pcP \in {"idle", "loop"} /\ pcC \in {"idle", "loop"}

-----------------------------------------------------------------------------
\* Properties of the sequential use (Spec).

\* The references read out so far are the first references stored, in order.
IsPrefix(s, t) == Len(s) <= Len(t) /\ \A i \in 1..Len(s) : s[i] = t[i]

\* C1: FIFO. For every capacity and every sequence of inserts and removes in
\* which insert is only called when not full and remove only when not empty, the
\* i-th remove returns the i-th inserted reference.
C1_FIFO ==
    ~violated =>
        /\ IsPrefix(removed, inserted)
        /\ lastOp = "remove" => ret = inserted[Len(removed)]

C1_Witness ==
    /\ ~violated /\ lastOp = "remove"
    /\ Len(removed) >= 2 /\ removed[1] # removed[2]
    /\ size >= 2

\* C5: in every state reached from init by calls that respect the preconditions,
\* 0 <= count <= capacity.
C5_CountInRange == ~violated => (0 <= sount /\ sount <= size)

C5_Witness ==
    /\ ~violated /\ lastOp = "insert" /\ sount = size
    /\ Len(removed) >= 1 /\ size >= 2

\* C6: after every completed init, insert or remove, in any sequence (also one
\* that ignores the full/empty preconditions), both cursors point at a slot
\* index in [0, capacity).
C6_CursorsInRange == in \in 0..(size - 1) /\ out \in 0..(size - 1)

C6_Witness ==
    /\ violated /\ lastOp = "insert" /\ in = 0
    /\ Len(inserted) > size /\ size >= 2

C8_Wraparound ==
    /\ in = Len(inserted) % size
    /\ out = Len(removed) % size
    /\ ~violated => IsPrefix(removed, inserted)

C8_Witness ==
    /\ ~violated /\ size >= 2
    /\ Len(removed) > size /\ out = 1
    /\ lastOp = "remove" /\ ret = inserted[Len(removed)]

\* C9: peek changes neither count nor a cursor nor a storage slot, and on a
\* non-empty buffer a remove that follows it (after any number of peeks) returns
\* the reference peek returned.
C9_Peek ==
    [][ /\ lastOp' = "peek" =>
              /\ UNCHANGED <<bufVars, storage>>
              /\ ret' = storage[out]
        /\ (lastOp = "peek" /\ lastOp' = "remove" /\ ~ringbuffer_is_empty) =>
              ret' = ret
      ]_vars

C9_Witness ==
    /\ lastOp = "peek" /\ ~ringbuffer_is_empty /\ ~violated
    /\ out > 0 /\ ret \in Refs /\ ret # storage[start]

\* C10 as stated: freeCount() = capacity - count() after every operation, in
\* any sequence of operations.
C10_FreeCountExact ==
    /\ ringbuffer_get_free_count = size - ringbuffer_get_count
    /\ lastOp = "get_free_count" => ret = size - ringbuffer_get_count

\* C10 amended: freeCount() = (capacity - count()) mod 2^16 after every
\* operation in any sequence; it is capacity - count() whenever
\* count() <= capacity, so in every sequence that respects the preconditions.
C10_FreeCountMod ==
    /\ ringbuffer_get_free_count \in 0..(UINT16_MOD - 1)
    /\ (ringbuffer_get_free_count + ringbuffer_get_count) % UINT16_MOD = size
    /\ ringbuffer_get_count <= size =>
          ringbuffer_get_free_count = size - ringbuffer_get_count
    /\ ~violated => ringbuffer_get_count <= size
    /\ lastOp = "get_free_count" => ret = ringbuffer_get_free_count

C10_Witness ==
    /\ lastOp = "get_free_count" /\ ~violated
    /\ ret = 1 /\ sount = size - 1 /\ size >= 2 /\ Len(removed) >= 1

-----------------------------------------------------------------------------
\* Properties of the producer/consumer system (SpecSPSC).

\* C2: one producer that inserts only after seeing is_full false, one consumer
\* that removes only after seeing is_empty false: whenever neither is in the
\* middle of an operation, count = entries inserted - entries removed.
C2_CountIsOccupancy ==
    (prodMode = "check" /\ consMode = "check" /\ Quiescent) =>
        sount = Len(inserted) - Len(removed)

\* C3: the consumer reads count() = c and makes c removes without looking
\* again, the producer inserts only when it sees not-full: no remove underflows
\* and the removes return the inserted references in insertion order.
C3_CountIsLowerBound ==
    (prodMode = "check" /\ consMode = "batch") =>
        /\ ~underflow
        /\ IsPrefix(removed, inserted)

\* C4: the producer reads freeCount() = f and makes f inserts without looking
\* again, the consumer removes only when it sees not-empty: no insert writes a
\* slot whose reference the consumer has not read yet.
C4_FreeCountIsSafe ==
    (prodMode = "batch" /\ consMode = "check") => ~overwrite

-----------------------------------------------------------------------------
\* Further properties of the sequential use (Spec).

C12_Underflow ==
    [][ (lastOp' = "remove" /\ removed' # removed /\ sount = 0) =>
            /\ ret' = storage[out]
            /\ out' = (out + 1) % size
            /\ sount' = UINT16_MOD - 1
            /\ ~ringbuffer_is_empty'
            /\ ~ringbuffer_is_full'
      ]_vars

\* After a remove on a buffer that was empty and uncorrupted: nothing unread is
\* stored, yet the buffer does not report empty.
C12_Witness ==
    /\ lastOp = "remove" /\ violated
    /\ Len(removed) = Len(inserted) + 1
    /\ sount = UINT16_MOD - 1 /\ ~ringbuffer_is_empty
    /\ out = 1 /\ ret \in Refs

\* C16: count(), freeCount(), isEmpty() and isFull() leave every field of the
\* buffer and every storage slot unchanged; count changes only through insert
\* (+1 per call), remove (-1 per call) and init (to 0), in uint16_t arithmetic.
Queries == {"get_count", "get_free_count", "is_empty", "is_full"}

C17_CursorCounter ==
    ~violated =>
        /\ in = (out + sount) % size
        /\ (in = out) <=> (ringbuffer_is_empty \/ ringbuffer_is_full)

C17_Witness ==
    /\ ~violated /\ size = 2 /\ ringbuffer_is_full
    /\ in = 1 /\ out = 1 /\ lastOp = "insert"

\* C18: after one unchecked insert on a full buffer of capacity N < 65535,
\* count = N + 1, isFull() is false and freeCount() is 65535, so a producer that
\* tests isFull() or freeCount() before each insert is not stopped.
C18_OverflowCount ==
    [][ (lastOp' = "insert" /\ inserted' # inserted /\ ringbuffer_is_full) =>
            /\ sount' = size + 1
            /\ ~ringbuffer_is_full'
            /\ ringbuffer_get_free_count' = UINT16_MOD - 1
            /\ ringbuffer_get_free_count' # 0
      ]_vars

C18_Witness ==
    /\ violated /\ lastOp = "insert" /\ removed = <<>>
    /\ Len(inserted) = size + 1 /\ sount = size + 1
    /\ ~ringbuffer_is_full /\ ringbuffer_get_free_count = UINT16_MOD - 1

\* The position in inserted of the reference last stored in slot i (0: no
\* reference was stored in slot i since init).
PositionsAt(i) == {j \in 1..Len(inserted) : (j - 1) % size = i}

LatestAt(i) ==
    IF PositionsAt(i) = {} THEN 0
    ELSE CHOOSE j \in PositionsAt(i) : \A k \in PositionsAt(i) : k <= j

\* C13: overflow. insert() called when count = capacity performs no check and
\* signals no error; it stores into the slot at the read cursor, which holds the
\* oldest unconsumed reference, and that reference is never returned by a later
\* remove: the position it had leaves the last capacity positions of inserted,
\* and every remove returns a reference from those.
C13_Overflow ==
    [][ /\ (lastOp' = "insert" /\ inserted' # inserted /\ ringbuffer_is_full) =>
              /\ in = out
              /\ storage'[out] = inserted'[Len(inserted')]
              /\ sount' = size + 1
              /\ ret' = NULL
              /\ ~violated =>
                    /\ storage[out] = inserted[Len(removed) + 1]
                    /\ Len(removed) + 1 = Len(inserted') - size
                    /\ LatestAt(out)' # Len(removed) + 1
        /\ (lastOp' = "remove" /\ removed' # removed /\ LatestAt(out) # 0) =>
              /\ ret' = inserted[LatestAt(out)]
              /\ LatestAt(out) > Len(inserted) - size
      ]_vars

\* Capacity 2: two inserts, a third on the full buffer, then a remove, which
\* returns the third reference; the first one is lost.
C13_Witness ==
    /\ violated /\ lastOp = "remove" /\ size = 2
    /\ Len(inserted) = 3 /\ Len(removed) = 1
    /\ ret = inserted[3] /\ ret # inserted[1] /\ sount = 2

\* C15, the part on writes and what insert reads: an insert or remove step does
\* what InsertOf / RemoveOf compute; insert leaves the read cursor alone and
\* does not depend on it; remove leaves the write cursor and every slot alone
\* and does not depend on the write cursor; both write count, and nothing else
\* is written by both.
SlotValues == Refs \cup {NULL}

C15_InsertIgnoresOut ==
    \A Data \in Refs :
        LET r == InsertOf(Buf, storage, Data)
        IN  \A o \in Slots \ {out} : InsertOf([Buf EXCEPT !.out = o], storage, Data) = r

C15_RemoveIgnoresIn ==
    LET r == RemoveOf(Buf, storage)
    IN  \A i \in Slots \ {in} : RemoveOf([Buf EXCEPT !.in = i], storage) = r

C15_Steps ==
    /\ (lastOp' = "insert" /\ inserted' # inserted) =>
          /\ [storage |-> storage', in |-> in', sount |-> sount']
                = InsertOf(Buf, storage, inserted'[Len(inserted')])
          /\ UNCHANGED <<out, start, end, size>>
          /\ sount' # sount
    /\ (lastOp' = "remove" /\ removed' # removed) =>
          /\ [Data |-> ret', out |-> out', sount |-> sount'] = RemoveOf(Buf, storage)
          /\ UNCHANGED <<in, storage, start, end, size>>
          /\ sount' # sount

\* C15 as stated: in addition, remove reads no storage slot, so what it returns
\* and stores is the same whatever any slot of the array holds.
C15_Ownership ==
    /\ [](C15_InsertIgnoresOut /\ C15_RemoveIgnoresIn)
    /\ [](LET r == RemoveOf(Buf, storage)
           IN  \A s \in Slots : \A v \in SlotValues \ {storage[s]} :
                  RemoveOf(Buf, [storage EXCEPT ![s] = v]) = r)
    /\ [][C15_Steps]_vars

\* C15 amended: remove reads one storage slot, the one at the read cursor (whose
\* content it returns), and no other; the rest as stated.
C15_OwnershipReadsSlot ==
    /\ [](C15_InsertIgnoresOut /\ C15_RemoveIgnoresIn)
    /\ [](LET r == RemoveOf(Buf, storage)
           IN  /\ \A s \in Slots \ {out} : \A v \in SlotValues \ {storage[s]} :
                     RemoveOf(Buf, [storage EXCEPT ![s] = v]) = r
               /\ \A v \in SlotValues \ {storage[out]} :
                     RemoveOf(Buf, [storage EXCEPT ![out] = v]).Data = v)
    /\ [][C15_Steps]_vars

C15_Witness ==
    /\ ~violated /\ lastOp = "remove" /\ size = 2
    /\ in = 1 /\ out = 0 /\ sount = 1
    /\ storage[0] # storage[1] /\ ret = storage[1]

-----------------------------------------------------------------------------
\* Further properties of the producer/consumer system.

\* The steps of a running ringbuffer_insert / ringbuffer_remove call.
InsertStep == P_Write \/ P_AdvIn \/ P_Load \/ P_Store

RemoveStep == C_Read \/ C_AdvOut \/ C_Load \/ C_Store

InInsert == pcP \in {"write", "adv_in", "load", "store"}

InRemove == pcC \in {"read", "adv_out", "load", "store"}

C19_Delivery ==
    \A i \in 1..MaxOps :
        (/\ prodMode = "check" /\ consMode = "check"
         /\ Len(inserted) >= i
         /\ (Len(inserted) > i \/ pcP \in {"idle", "loop"}))
            ~> (Len(removed) >= i)

====
